---- MODULE Spec2Model ----
(***************************************************************************)
(* Model of password_analyzer.py: the PasswordAnalyzer class.              *)
(*                                                                         *)
(* A password is a sequence of one-character strings.  A report is the     *)
(* dict built by analyze_password, as a record with the same keys.  The    *)
(* entropy, a float rounded to two decimals in the source, is kept as an   *)
(* integer number of hundredths.                                           *)
(***************************************************************************)
EXTENDS Integers, Sequences, FiniteSets, TLC

VARIABLES common_passwords, password, results, pc, calls

vars == <<common_passwords, password, results, pc, calls>>

(***************************************************************************)
(* Bounds of the model.                                                    *)
(***************************************************************************)
\* longest password enumerated exhaustively over ShortAlphabet
MaxLen == 4
\* longest string put before or after a stem password
MaxAffix == 1
\* calls of analyze_password made on the one analyzer instance
MaxCalls == 2
\* largest value of results['length'] drawn for the detector-level check
MaxLength == 17

(***************************************************************************)
(* Characters.                                                             *)
(***************************************************************************)
UpperLetters ==
  <<"A","B","C","D","E","F","G","H","I","J","K","L","M",
    "N","O","P","Q","R","S","T","U","V","W","X","Y","Z">>

LowerLetters ==
  <<"a","b","c","d","e","f","g","h","i","j","k","l","m",
    "n","o","p","q","r","s","t","u","v","w","x","y","z">>

Digits == {"0","1","2","3","4","5","6","7","8","9"}

\* the character class of line 28: [!@#$%^&*(),.?":{}|<>]
SpecialChars ==
  {"!","@","#","$","%","^","&","*","(",")",",",".","?","\"",":","{","}","|","<",">"}

Range(s) == { s[i] : i \in DOMAIN s }

\* str.lower() on one character
lower_char(c) ==
  IF \E i \in DOMAIN UpperLetters : UpperLetters[i] = c
    THEN LowerLetters[CHOOSE i \in DOMAIN UpperLetters : UpperLetters[i] = c]
    ELSE c

\* str.lower()
lower(s) == [ i \in 1..Len(s) |-> lower_char(s[i]) ]

\* seq[::-1]
reversed(s) == [ i \in 1..Len(s) |-> s[Len(s) + 1 - i] ]

\* `sub in s` for strings
contains(s, sub) ==
  \E k \in 0..(Len(s) - Len(sub)) :
     \A j \in 1..Len(sub) : s[k + j] = sub[j]

\* re.search of a one-character class
re_search(class, s) == \E i \in 1..Len(s) : s[i] \in class

(***************************************************************************)
(* __init__: the built-in denylist.                                        *)
(***************************************************************************)
\* variant: the denylist also holds a twelve-character entry with a special
CommonPasswords_long ==
  { <<"p","a","s","s","w","o","r","d">>, <<"1","2","3","4","5","6">>,
    <<"1","2","3","4","5","6","7","8">>, <<"q","w","e","r","t","y">>,
    <<"a","b","c","1","2","3">>,
    <<"m","o","n","k","e","y">>, <<"1","2","3","4","5","6","7">>,
    <<"l","e","t","m","e","i","n">>, <<"t","r","u","s","t","n","o","1">>,
    <<"d","r","a","g","o","n">>,
    <<"b","a","s","e","b","a","l","l">>, <<"i","l","o","v","e","y","o","u">>,
    <<"m","a","s","t","e","r">>, <<"s","u","n","s","h","i","n","e">>,
    <<"a","s","h","l","e","y">>,
    <<"b","a","i","l","e","y">>, <<"s","h","a","d","o","w">>,
    <<"1","2","3","1","2","3">>, <<"6","5","4","3","2","1">>,
    <<"s","u","p","e","r","m","a","n">>,
    <<"p","@","s","s","w","0","r","d","2","0","2","4">> }

CommonPasswords ==
  { <<"p","a","s","s","w","o","r","d">>, <<"1","2","3","4","5","6">>,
    <<"1","2","3","4","5","6","7","8">>, <<"q","w","e","r","t","y">>,
    <<"a","b","c","1","2","3">>,
    <<"m","o","n","k","e","y">>, <<"1","2","3","4","5","6","7">>,
    <<"l","e","t","m","e","i","n">>, <<"t","r","u","s","t","n","o","1">>,
    <<"d","r","a","g","o","n">>,
    <<"b","a","s","e","b","a","l","l">>, <<"i","l","o","v","e","y","o","u">>,
    <<"m","a","s","t","e","r">>, <<"s","u","n","s","h","i","n","e">>,
    <<"a","s","h","l","e","y">>,
    <<"b","a","i","l","e","y">>, <<"s","h","a","d","o","w">>,
    <<"1","2","3","1","2","3">>, <<"6","5","4","3","2","1">>,
    <<"s","u","p","e","r","m","a","n">> }

(***************************************************************************)
(* _check_repeated_chars: for i in range(len - 2), first triple returns.   *)
(* Indices are the source's 0-based ones.                                  *)
(***************************************************************************)
\* variant: the loop compares two neighbours instead of three
RECURSIVE check_repeated_from_pairs(_, _)
check_repeated_from_pairs(pw, i) ==
  IF i >= Len(pw) - 2 THEN FALSE
  ELSE IF pw[i + 1] = pw[i + 2] THEN TRUE
  ELSE check_repeated_from_pairs(pw, i + 1)

RECURSIVE check_repeated_from(_, _)
check_repeated_from(pw, i) ==
  IF i >= Len(pw) - 2 THEN FALSE
  ELSE IF pw[i + 1] = pw[i + 2] /\ pw[i + 2] = pw[i + 3] THEN TRUE
  ELSE check_repeated_from(pw, i + 1)

_check_repeated_chars(pw) == check_repeated_from(pw, 0)

\* IndexError: some iteration of the loop reads a position outside the string
_check_repeated_chars_raises(pw) ==
  \E i \in 0..(Len(pw) - 3) :
     /\ \A k \in 0..(i - 1) : ~(pw[k + 1] = pw[k + 2] /\ pw[k + 2] = pw[k + 3])
     /\ i + 2 > Len(pw) - 1

(***************************************************************************)
(* _check_sequential                                                       *)
(***************************************************************************)
sequences ==
  << <<"a","b","c">>, <<"1","2","3">>, <<"x","y","z">>,
     <<"q","w","e">>, <<"a","s","d">> >>

_check_sequential(pw) ==
  LET password_lower == lower(pw)
  IN  \E n \in DOMAIN sequences :
         \/ contains(password_lower, sequences[n])
         \/ contains(password_lower, reversed(sequences[n]))

(***************************************************************************)
(* _calculate_entropy                                                      *)
(***************************************************************************)
\* Counter(password)
Counter(pw) ==
  [ c \in Range(pw) |-> Cardinality({ i \in DOMAIN pw : pw[i] = c }) ]

\* the constant 3.321928 of line 61, in millionths
LOG2_10_MICRO == 3321928

RECURSIVE SumSquares(_, _)
SumSquares(f, S) ==
  IF S = {} THEN 0
  ELSE LET c == CHOOSE x \in S : TRUE
       IN  f[c] * f[c] + SumSquares(f, S \ {c})

\* round(n / d, 0) for integers n >= 0, d > 0, half to even
RoundDiv(n, d) ==
  LET q == n \div d
      r == n % d
  IN  IF 2 * r < d THEN q
      ELSE IF 2 * r > d THEN q + 1
      ELSE IF q % 2 = 0 THEN q ELSE q + 1

\* Each iteration does entropy -= p * (p and (p * 3.321928)) with
\* p = count / length, count >= 1, so `p and X` is X and the loop leaves
\* entropy = -3.321928 * sum(count^2) / length^2.  The result is
\* round(entropy * length, 2), here in hundredths.
_calculate_entropy(pw) ==
  LET char_freq == Counter(pw)
      length    == Len(pw)
  IN  IF DOMAIN char_freq = {} THEN 0
      ELSE 0 - RoundDiv(LOG2_10_MICRO * SumSquares(char_freq, DOMAIN char_freq),
                        length * 10000)

\* variant: the division by length is hoisted out of the loop
_calculate_entropy_raises_hoisted(pw) == Len(pw) = 0

\* ZeroDivisionError: the loop body divides by length
_calculate_entropy_raises(pw) ==
  \E c \in DOMAIN Counter(pw) : Len(pw) = 0

(***************************************************************************)
(* _calculate_strength                                                     *)
(***************************************************************************)
Max(a, b) == IF a >= b THEN a ELSE b
Min(a, b) == IF a <= b THEN a ELSE b

\* variant: the length bonuses form an elif chain and do not accumulate
_calculate_strength_elif(r) ==
  LET s3  == IF r.length >= 16 THEN 10
             ELSE IF r.length >= 12 THEN 10
             ELSE IF r.length >= 8 THEN 20 ELSE 0
      s4  == IF r.has_uppercase THEN s3 + 15 ELSE s3
      s5  == IF r.has_lowercase THEN s4 + 15 ELSE s4
      s6  == IF r.has_digits THEN s5 + 15 ELSE s5
      s7  == IF r.has_special THEN s6 + 15 ELSE s6
      s8  == IF r.is_common THEN s7 - 50 ELSE s7
      s9  == IF r.has_repeated THEN s8 - 10 ELSE s8
      s10 == IF r.has_sequential THEN s9 - 10 ELSE s9
  IN  Max(0, Min(100, s10))

\* variant: the sequential-pattern penalty is left out
_calculate_strength_no_sequential(r) ==
  LET s1  == IF r.length >= 8 THEN 20 ELSE 0
      s2  == IF r.length >= 12 THEN s1 + 10 ELSE s1
      s3  == IF r.length >= 16 THEN s2 + 10 ELSE s2
      s4  == IF r.has_uppercase THEN s3 + 15 ELSE s3
      s5  == IF r.has_lowercase THEN s4 + 15 ELSE s4
      s6  == IF r.has_digits THEN s5 + 15 ELSE s5
      s7  == IF r.has_special THEN s6 + 15 ELSE s6
      s8  == IF r.is_common THEN s7 - 50 ELSE s7
      s9  == IF r.has_repeated THEN s8 - 10 ELSE s8
  IN  Max(0, Min(100, s9))

_calculate_strength(r) ==
  LET s1  == IF r.length >= 8 THEN 20 ELSE 0
      s2  == IF r.length >= 12 THEN s1 + 10 ELSE s1
      s3  == IF r.length >= 16 THEN s2 + 10 ELSE s2
      s4  == IF r.has_uppercase THEN s3 + 15 ELSE s3
      s5  == IF r.has_lowercase THEN s4 + 15 ELSE s4
      s6  == IF r.has_digits THEN s5 + 15 ELSE s5
      s7  == IF r.has_special THEN s6 + 15 ELSE s6
      s8  == IF r.is_common THEN s7 - 50 ELSE s7
      s9  == IF r.has_repeated THEN s8 - 10 ELSE s8
      s10 == IF r.has_sequential THEN s9 - 10 ELSE s9
  IN  Max(0, Min(100, s10))

(***************************************************************************)
(* _get_strength_label                                                     *)
(***************************************************************************)
\* variant: the band tests use <= and put each boundary in the lower band
_get_strength_label_le(score) ==
  IF score <= 40 THEN "Weak"
  ELSE IF score <= 70 THEN "Moderate"
  ELSE IF score <= 90 THEN "Strong"
  ELSE "Very Strong"

_get_strength_label(score) ==
  IF score < 40 THEN "Weak"
  ELSE IF score < 70 THEN "Moderate"
  ELSE IF score < 90 THEN "Strong"
  ELSE "Very Strong"

(***************************************************************************)
(* _generate_recommendations                                               *)
(***************************************************************************)
RecLength     == "Increase length to at least 12 characters"
RecUppercase  == "Add uppercase letters"
RecLowercase  == "Add lowercase letters"
RecDigits     == "Include numbers"
RecSpecial    == "Add special characters (!@#$%^&*)"
RecCommon     == "Avoid common passwords - choose something unique"
RecRepeated   == "Remove repeated character sequences"
RecSequential == "Avoid sequential patterns (abc, 123)"
RecFallback   == "Excellent! Consider using a password manager"

\* variant: the fallback of lines 124-125 is missing
_generate_recommendations_no_fallback(r) ==
  LET r1 == IF r.length < 12 THEN <<RecLength>> ELSE <<>>
      r2 == IF ~r.has_uppercase THEN Append(r1, RecUppercase) ELSE r1
      r3 == IF ~r.has_lowercase THEN Append(r2, RecLowercase) ELSE r2
      r4 == IF ~r.has_digits THEN Append(r3, RecDigits) ELSE r3
      r5 == IF ~r.has_special THEN Append(r4, RecSpecial) ELSE r4
      r6 == IF r.is_common THEN Append(r5, RecCommon) ELSE r5
      r7 == IF r.has_repeated THEN Append(r6, RecRepeated) ELSE r6
      r8 == IF r.has_sequential THEN Append(r7, RecSequential) ELSE r7
  IN  r8

_generate_recommendations(r) ==
  LET r1 == IF r.length < 12 THEN <<RecLength>> ELSE <<>>
      r2 == IF ~r.has_uppercase THEN Append(r1, RecUppercase) ELSE r1
      r3 == IF ~r.has_lowercase THEN Append(r2, RecLowercase) ELSE r2
      r4 == IF ~r.has_digits THEN Append(r3, RecDigits) ELSE r3
      r5 == IF ~r.has_special THEN Append(r4, RecSpecial) ELSE r4
      r6 == IF r.is_common THEN Append(r5, RecCommon) ELSE r5
      r7 == IF r.has_repeated THEN Append(r6, RecRepeated) ELSE r6
      r8 == IF r.has_sequential THEN Append(r7, RecSequential) ELSE r7
  IN  IF r8 = <<>> THEN <<RecFallback>> ELSE r8

(***************************************************************************)
(* analyze_password                                                        *)
(***************************************************************************)
\* variant: the denylist test is made on the password as typed
Detect_case_sensitive(denylist, pw) ==
  [ length         |-> Len(pw),
    has_uppercase  |-> re_search(Range(UpperLetters), pw),
    has_lowercase  |-> re_search(Range(LowerLetters), pw),
    has_digits     |-> re_search(Digits, pw),
    has_special    |-> re_search(SpecialChars, pw),
    is_common      |-> pw \in denylist,
    has_repeated   |-> _check_repeated_chars(pw),
    has_sequential |-> _check_sequential(pw),
    entropy        |-> _calculate_entropy(pw) ]

\* lines 23-33: the detector outputs
Detect(denylist, pw) ==
  [ length         |-> Len(pw),
    has_uppercase  |-> re_search(Range(UpperLetters), pw),
    has_lowercase  |-> re_search(Range(LowerLetters), pw),
    has_digits     |-> re_search(Digits, pw),
    has_special    |-> re_search(SpecialChars, pw),
    is_common      |-> lower(pw) \in denylist,
    has_repeated   |-> _check_repeated_chars(pw),
    has_sequential |-> _check_sequential(pw),
    entropy        |-> _calculate_entropy(pw) ]

\* lines 35-37: score, label and recommendations folded into the dict
Fold(d) ==
  LET score == _calculate_strength(d)
  IN  [ length            |-> d.length,
        has_uppercase     |-> d.has_uppercase,
        has_lowercase     |-> d.has_lowercase,
        has_digits        |-> d.has_digits,
        has_special       |-> d.has_special,
        is_common         |-> d.is_common,
        has_repeated      |-> d.has_repeated,
        has_sequential    |-> d.has_sequential,
        entropy           |-> d.entropy,
        strength_score    |-> score,
        strength_label    |-> _get_strength_label(score),
        recommendations   |-> _generate_recommendations(d) ]

analyze_password(denylist, pw) == Fold(Detect(denylist, pw))

analyze_password_raises(pw) ==
  _check_repeated_chars_raises(pw) \/ _calculate_entropy_raises(pw)

\* the value of `results` while no report is held
NoResults ==
  [ length |-> 0, has_uppercase |-> FALSE, has_lowercase |-> FALSE,
    has_digits |-> FALSE, has_special |-> FALSE, is_common |-> FALSE,
    has_repeated |-> FALSE, has_sequential |-> FALSE, entropy |-> 0,
    strength_score |-> 0, strength_label |-> "", recommendations |-> <<>> ]

(***************************************************************************)
(* The passwords handed to analyze_password.                               *)
(***************************************************************************)
ShortAlphabet == {"a", "b", "c", "A", "1", "!"}

RECURSIVE Strings(_, _)
\* all strings over alphabet of length at most n
Strings(alphabet, n) ==
  IF n = 0 THEN { <<>> }
  ELSE LET shorter == Strings(alphabet, n - 1)
       IN  shorter \cup { Append(s, c) : s \in shorter, c \in alphabet }

upper_char(c) ==
  IF \E i \in DOMAIN LowerLetters : LowerLetters[i] = c
    THEN UpperLetters[CHOOSE i \in DOMAIN LowerLetters : LowerLetters[i] = c]
    ELSE c

\* every letter casing of the word w
Casings(w) ==
  { [ i \in 1..Len(w) |-> IF i \in S THEN upper_char(w[i]) ELSE w[i] ] :
      S \in SUBSET (1..Len(w)) }

\* the first n characters of unit repeated
Cycle(unit, n) == [ i \in 1..n |-> unit[((i - 1) % Len(unit)) + 1] ]

Units == { <<"k","T","7","!">>, <<"m","n">>, <<"4","_">>, <<"R","5">> }

Samples ==
  { <<"a","b","c","D","E","F","1","2","3","!","@","#">>,
    <<"a","a","a","1","1","1">>,
    <<"c","b","a","Z","Y","X","3","2","1">> }

Stems ==
  CommonPasswords \cup Samples
    \cup { Cycle(u, n) : u \in Units, n \in {7, 11, 15} }

Affixes == Strings(ShortAlphabet, MaxAffix)

Passwords ==
  Strings(ShortAlphabet, MaxLen)
    \cup UNION { Casings(w) : w \in CommonPasswords }
    \cup { t \o s : s \in Stems, t \in Affixes }
    \cup { s \o t : s \in Stems, t \in Affixes }

(***************************************************************************)
(* The analyzer instance and its callers.                                  *)
(***************************************************************************)
Init ==
  /\ common_passwords = CommonPasswords
  /\ password = <<>>
  /\ results = NoResults
  /\ pc = "idle"
  /\ calls = 0

\* a caller invokes analyzer.analyze_password(p)
Call(p) ==
  /\ pc = "idle"
  /\ calls < MaxCalls
  /\ password' = p
  /\ pc' = "call"
  /\ calls' = calls + 1
  /\ UNCHANGED <<common_passwords, results>>

\* variant: analyze_password adds the folded password to the denylist
AnalyzePassword_remembering ==
  /\ pc = "call"
  /\ IF analyze_password_raises(password)
       THEN pc' = "raised" /\ UNCHANGED results
       ELSE pc' = "returned"
            /\ results' = analyze_password(common_passwords, password)
  /\ common_passwords' = common_passwords \cup { lower(password) }
  /\ UNCHANGED <<password, calls>>

\* the body of analyze_password, up to its return or its exception
AnalyzePassword ==
  /\ pc = "call"
  /\ IF analyze_password_raises(password)
       THEN pc' = "raised" /\ UNCHANGED results
       ELSE pc' = "returned"
            /\ results' = analyze_password(common_passwords, password)
  /\ UNCHANGED <<common_passwords, password, calls>>

\* the caller is done with the report
Return ==
  /\ pc = "returned"
  /\ pc' = "idle"
  /\ password' = <<>>
  /\ results' = NoResults
  /\ UNCHANGED <<common_passwords, calls>>

Next ==
  \/ \E p \in Passwords : Call(p)
  \/ AnalyzePassword
  \/ Return

Spec == Init /\ [][Next]_vars

(***************************************************************************)
(* The scoring, labelling and advice steps on every combination of         *)
(* detector outputs.                                                       *)
(***************************************************************************)
EntropySamples == {0 - 3986, 0 - 332, 0, 2400}

DetectorOutputs ==
  [ length : 0..MaxLength,
    has_uppercase : BOOLEAN, has_lowercase : BOOLEAN,
    has_digits : BOOLEAN, has_special : BOOLEAN,
    is_common : BOOLEAN, has_repeated : BOOLEAN, has_sequential : BOOLEAN,
    entropy : EntropySamples ]

InitDetectors ==
  /\ common_passwords = CommonPasswords
  /\ password = <<>>
  /\ results \in DetectorOutputs
  /\ pc = "detected"
  /\ calls = 1

\* lines 35-39 of analyze_password
FoldResults ==
  /\ pc = "detected"
  /\ results' = Fold(results)
  /\ pc' = "returned"
  /\ UNCHANGED <<common_passwords, password, calls>>

NextDetectors == FoldResults

SpecDetectors == InitDetectors /\ [][NextDetectors]_vars

(***************************************************************************)
(* Properties.                                                             *)
(***************************************************************************)
Returned == pc = "returned"

\* the policy table: the sum of the deltas of a report's detector outputs
LengthBonus(n) ==
  IF n >= 16 THEN 40 ELSE IF n >= 12 THEN 30 ELSE IF n >= 8 THEN 20 ELSE 0

ClassCount(r) ==
  Cardinality({ k \in {"has_uppercase", "has_lowercase", "has_digits", "has_special"} : r[k] })

PenaltyCount(r) ==
  Cardinality({ k \in {"has_repeated", "has_sequential"} : r[k] })

DeltaSum(r) ==
  LengthBonus(r.length) + 15 * ClassCount(r) - 10 * PenaltyCount(r)
    - (IF r.is_common THEN 50 ELSE 0)

Clamp(x) == IF x < 0 THEN 0 ELSE IF x > 100 THEN 100 ELSE x

SamplePassword == <<"a","b","c","D","E","F","1","2","3","!","@","#">>

\* C1: every report has a score in 0..100 and the label of that score's band,
\* each band including its lower bound: below 40 Weak, 40..69 Moderate,
\* 70..89 Strong, 90 and above Very Strong.
ScoreInRangeLabelInBand ==
  Returned =>
    LET score == results.strength_score
        label == results.strength_label
    IN  /\ score \in 0..100
        /\ label \in {"Weak", "Moderate", "Strong", "Very Strong"}
        /\ (label = "Weak") <=> (score < 40)
        /\ (label = "Moderate") <=> (40 <= score /\ score < 70)
        /\ (label = "Strong") <=> (70 <= score /\ score < 90)
        /\ (label = "Very Strong") <=> (score >= 90)

\* C1 witness: a password scored exactly 40, the lower bound of Moderate
ScoreFortyModerate ==
  Returned /\ results.strength_score = 40 /\ results.strength_label = "Moderate"

\* C2: for every combination of detector outputs the score is the clamped sum
\* of the table's deltas, with cumulative length bonuses, whatever the entropy.
ScoreIsClampedDeltaSum ==
  Returned => results.strength_score = Clamp(DeltaSum(results))

\* C2 witness: sixteen characters with every class and every penalty
ScoredLongWithAllPenalties ==
  /\ Returned
  /\ results.length >= 16
  /\ ClassCount(results) = 4
  /\ PenaltyCount(results) = 2
  /\ results.is_common
  /\ results.entropy > 0
  /\ results.strength_score = 30

Advice ==
  <<RecLength, RecUppercase, RecLowercase, RecDigits, RecSpecial,
    RecCommon, RecRepeated, RecSequential>>

ConditionHolds(r, k) ==
  CASE k = 1 -> r.length < 12
    [] k = 2 -> ~r.has_uppercase
    [] k = 3 -> ~r.has_lowercase
    [] k = 4 -> ~r.has_digits
    [] k = 5 -> ~r.has_special
    [] k = 6 -> r.is_common
    [] k = 7 -> r.has_repeated
    [] k = 8 -> r.has_sequential

\* C3: the recommendations are never empty; they hold one advice entry for
\* each of the eight conditions that holds, in the fixed order and without
\* duplicates, and are the single fallback entry iff no condition holds.
RecommendationsMatchConditions ==
  Returned =>
    LET recs == results.recommendations
        none == \A k \in 1..8 : ~ConditionHolds(results, k)
    IN  /\ Len(recs) >= 1
        /\ \A k \in 1..8 :
              ConditionHolds(results, k) <=> (\E i \in 1..Len(recs) : recs[i] = Advice[k])
        /\ \A i, j \in 1..Len(recs) : i # j => recs[i] # recs[j]
        /\ \A i, j \in 1..Len(recs) : \A k, l \in 1..8 :
              (i < j /\ recs[i] = Advice[k] /\ recs[j] = Advice[l]) => k < l
        /\ \A i \in 1..Len(recs) : recs[i] \in Range(Advice) \cup {RecFallback}
        /\ (recs = <<RecFallback>>) <=> none
        /\ (\E i \in 1..Len(recs) : recs[i] = RecFallback) => none

\* C3 witness: a report with no failing condition, holding the fallback alone
FallbackOnly ==
  /\ Returned
  /\ results.recommendations = <<RecFallback>>
  /\ results.length >= 12
  /\ ClassCount(results) = 4

\* C4: analyze_password on the empty password does not raise and returns a
\* complete report: length 0, no character class, not common, entropy 0,
\* score 0, label Weak.
EmptyPasswordReport ==
  (pc \in {"returned", "raised"} /\ password = <<>>) =>
    /\ pc = "returned"
    /\ results.length = 0
    /\ ~results.has_uppercase /\ ~results.has_lowercase
    /\ ~results.has_digits /\ ~results.has_special
    /\ ~results.is_common
    /\ ~results.has_repeated /\ ~results.has_sequential
    /\ results.entropy = 0
    /\ results.strength_score = 0
    /\ results.strength_label = "Weak"
    /\ Len(results.recommendations) >= 1

\* C4 witness: the call on the empty password has returned
EmptyPasswordReturned ==
  Returned /\ password = <<>> /\ results.strength_label = "Weak"

\* C5 as stated: "abcDEF123!@#" has a sequential pattern, scores 90 and is
\* labelled Very Strong.
SampleScoresNinety ==
  (Returned /\ password = SamplePassword) =>
    /\ results.has_sequential
    /\ results.strength_score = 90
    /\ results.strength_label = "Very Strong"

\* C5 amended: "abcDEF123!@#" (length 12, four classes, not common, no
\* repeated run) has a sequential pattern, scores 20 + 10 + 60 - 10 = 80 and
\* is labelled Strong.
SampleScoresEighty ==
  (Returned /\ password = SamplePassword) =>
    /\ results.length = 12
    /\ ClassCount(results) = 4
    /\ ~results.is_common
    /\ ~results.has_repeated
    /\ results.has_sequential
    /\ results.strength_score = 80
    /\ results.strength_label = "Strong"

\* C5 witness: the report of "abcDEF123!@#"
SampleAnalyzed ==
  Returned /\ password = SamplePassword /\ results.has_sequential

\* C6: the entropy estimate of every report is at least 0, and is 0 for a
\* password made of one repeated character.
EntropyNonNegative ==
  Returned =>
    /\ results.entropy >= 0
    /\ (Len(password) >= 1 /\ Cardinality(Range(password)) = 1) => results.entropy = 0

\* the password pw is the denylist entry w in some letter casing
IsCasingOf(pw, w) ==
  /\ Len(pw) = Len(w)
  /\ \A i \in 1..Len(w) : pw[i] = w[i] \/ pw[i] = upper_char(w[i])

\* C7: is_common holds iff the whole password, letter case aside, equals a
\* denylist entry (containing one as a proper substring does not count), and
\* is_common takes 50 off the score sum.
CommonIffCasingOfEntry ==
  Returned =>
    /\ results.is_common <=> (\E w \in CommonPasswords : IsCasingOf(password, w))
    /\ results.is_common =>
         results.strength_score =
           Clamp(LengthBonus(results.length) + 15 * ClassCount(results)
                   - 10 * PenaltyCount(results) - 50)

\* C7 witness: "PASSWORD" is flagged
UppercasePasswordFlagged ==
  /\ Returned
  /\ password = <<"P","A","S","S","W","O","R","D">>
  /\ results.is_common

\* C8: no call changes the denylist, and the report of a call is the one a
\* freshly constructed analyzer returns for the same password, whatever calls
\* came before.
DenylistFixedReportFresh ==
  /\ common_passwords = CommonPasswords
  /\ Returned => results = analyze_password(CommonPasswords, password)

\* C8 witness: a later call on the same instance has returned a report that
\* consulted the denylist
LaterCallReturned ==
  Returned /\ calls >= 2 /\ results.is_common

\* C9: has_repeated holds iff three equal characters stand at i, i+1, i+2 for
\* some i; passwords shorter than three give false, and the scan never reads
\* out of range.
RepeatedIffTriple ==
  /\ pc # "raised"
  /\ Returned =>
       /\ results.has_repeated <=>
            (\E i \in 1..(Len(password) - 2) :
                password[i] = password[i + 1] /\ password[i + 1] = password[i + 2])
       /\ Len(password) <= 2 => ~results.has_repeated

\* C9 witness: "aaa111" is flagged
TripleFlagged ==
  /\ Returned
  /\ password = <<"a","a","a","1","1","1">>
  /\ results.has_repeated

\* C10: a password flagged common, in any letter casing, scores at most 15
\* and is labelled Weak; every denylist entry has at most 8 characters and no
\* special character.
CommonScoresAtMostFifteen ==
  /\ \A w \in common_passwords : Len(w) <= 8 /\ ~re_search(SpecialChars, w)
  /\ (Returned /\ results.is_common) =>
       /\ results.strength_score <= 15
       /\ results.strength_label = "Weak"

\* C10 witness: a flagged password that reaches the score 15
CommonScoresFifteen ==
  Returned /\ results.is_common /\ results.strength_score = 15

====
